---- MODULE Spec2Model ----
(***************************************************************************)
(* SensorThingsProvider (src/sta/sta_wrapper.py): the query/get entry      *)
(* points, _load with its pagination loop, _make_filter and _make_orderby, *)
(* run against a SensorThings service that answers every GET.              *)
(*                                                                         *)
(* Python values are tagged records (None, int, str), so that the dynamic  *)
(* typing the code relies on (truthiness, str(), min() of mixed types) is  *)
(* computed and not assumed.  Strings are TLA+ strings built with \o; a    *)
(* datetime_ argument is a sequence of tokens, "/" being the separator     *)
(* that str.split('/') looks for.                                          *)
(***************************************************************************)
EXTENDS Integers, Sequences, FiniteSets, TLC

VARIABLES
    pc,          \* "idle" | "orderby" | "get" | "loop" | "page" | "done"
    time_field,  \* self.time_field
    call,        \* the operation that was called, its resulttype and limit
    args,        \* the parameters _load is bound to
    params,      \* the request parameters _load builds
    session,     \* s: "none" | "open" | "closed"
    url,         \* url = urljoin(self._url, entity)
    server,      \* the service that answers this call
    gets,        \* number of GETs issued (saturates at MaxGets)
    firstStatus, \* r.status_code of the first GET, 0 before it
    pageFailed,  \* a continuation-link GET got a non-success status
    stalled,     \* the last continuation page had a nextLink and no records
    nextLink,    \* response.get('@iot.nextLink') is not None
    v,           \* the response accumulator
    hits_,       \* number of records wanted
    result       \* how the call ended

vars == <<pc, time_field, call, args, params, session, url, server, gets,
          firstStatus, pageFailed, stalled, nextLink, v, hits_, result>>

-----------------------------------------------------------------------------
(* Bounds of the model *)

MaxLimit == 3
MaxTotal == 3
MaxPage == 2
MaxGets == 2
MaxSort == 3

-----------------------------------------------------------------------------
(* Python values *)

None_ == [t |-> "none", i |-> 0, s |-> ""]
PyInt(n) == [t |-> "int", i |-> n, s |-> ""]
PyStr(x) == [t |-> "str", i |-> 0, s |-> x]

\* bool(x)
Truthy(x) == \/ x.t = "int" /\ x.i # 0
             \/ x.t = "str" /\ x.s # ""

\* str(x) and the {x} of an f-string
Str(x) == IF x.t = "int" THEN ToString(x.i)
          ELSE IF x.t = "str" THEN x.s ELSE "None"

Range(f) == {f[k] : k \in DOMAIN f}

Min(a, b) == IF a <= b THEN a ELSE b

\* sep.join(list)
RECURSIVE Join(_, _)
Join(sep, list) ==
    IF list = <<>> THEN ""
    ELSE IF Len(list) = 1 THEN list[1]
    ELSE list[1] \o sep \o Join(sep, Tail(list))

\* ''.join(tokens): the text of a tokenised string
RECURSIVE Text(_)
Text(toks) == IF toks = <<>> THEN "" ELSE Head(toks) \o Text(Tail(toks))

\* s.split('/') on a tokenised string
RECURSIVE Split(_)
Split(toks) ==
    IF toks = <<>> THEN <<"">>
    ELSE LET rest == Split(Tail(toks))
         IN  IF Head(toks) = "/" THEN <<"">> \o rest
             ELSE <<Head(toks) \o Head(rest)>> \o Tail(rest)

-----------------------------------------------------------------------------
(* Module constants *)

ENTITY ==
    {"Thing", "Things", "Observation", "Observations",
     "Location", "Locations", "Sensor", "Sensors",
     "Datastream", "Datastreams", "ObservedProperty",
     "ObservedProperties", "FeatureOfInterest", "FeaturesOfInterest",
     "HistoricalLocation", "HistoricalLocations"}

ENTITY_LOCATION ==
    [Things |-> "Locations/location",
     Observations |-> "FeatureOfInterest/feature",
     Locations |-> "location",
     Sensors |-> "Datastreams/Thing/Locations/location",
     Datastreams |-> "Thing/Locations/location",
     ObservedProperties |-> "Datastreams/Thing/Locations/location",
     FeaturesOfInterest |-> "feature",
     HistoricalLocations |-> "Locations/location"]

\* requests.codes.bad
codes_bad == 400

\* the default of limit in query and _load
DefaultLimit == 10

-----------------------------------------------------------------------------
(* How a call ends *)

\* an exception, a list of records, the feature collection that carries
\* numberMatched, a string, or the value of an expression
NoResult == [kind |-> "none", exc |-> "", list |-> <<>>,
             numberMatched |-> None_, text |-> ""]
Raise(e) == [NoResult EXCEPT !.kind = "raise", !.exc = e]
ReturnList(l) == [NoResult EXCEPT !.kind = "list", !.list = l]
ReturnCount(n) == [NoResult EXCEPT !.kind = "count", !.numberMatched = n]
ReturnText(x) == [NoResult EXCEPT !.kind = "text", !.text = x]
Value(n) == [kind |-> "value", i |-> n]

-----------------------------------------------------------------------------
(* _make_orderby *)

_map == [o \in {"+", "-"} |-> IF o = "+" THEN "asc" ELSE "desc"]

\* one pass of the loop body: the clause of one sort spec
OrderClause(spec) ==
    LET prop == IF spec.property \in ENTITY
                THEN spec.property \o "/@iot.id" ELSE spec.property
    IN  prop \o " " \o _map[spec.order]

\* the loop with  ret.append(clause)  in place of the assignment to ret
RECURSIVE OrderRetAppend(_, _)
OrderRetAppend(ret, sortby) ==
    IF sortby = <<>> THEN ret
    ELSE OrderRetAppend(Append(ret, OrderClause(Head(sortby))), Tail(sortby))

\* ret after the loop, with the assignment  ret = [clause]
RECURSIVE OrderRet(_, _)
OrderRet(ret, sortby) ==
    IF sortby = <<>> THEN ret
    ELSE OrderRet(<<OrderClause(Head(sortby))>>, Tail(sortby))

make_orderby(sortby) ==
    IF \E k \in DOMAIN sortby : sortby[k].order \notin DOMAIN _map
    THEN Raise("KeyError")
    ELSE ReturnText(Join(",", OrderRet(<<>>, sortby)))

-----------------------------------------------------------------------------
(* _make_filter *)

NoDatetime == [given |-> FALSE, toks |-> <<>>]
Datetime(toks) == [given |-> TRUE, toks |-> toks]

PropertyClause(p) ==
    IF p.name \in ENTITY
    THEN p.name \o "/@iot.id eq " \o Str(p.value)
    ELSE p.name \o " eq " \o Str(p.value)

InLocationMap(entity) == entity.t = "str" /\ entity.s \in DOMAIN ENTITY_LOCATION

BboxClause(entity, bbox) ==
    LET location == ENTITY_LOCATION[entity.s]
        minx == ToString(bbox[1])
        miny == ToString(bbox[2])
        maxx == ToString(bbox[3])
        maxy == ToString(bbox[4])
        bbox_ == "POLYGON ((" \o minx \o " " \o miny \o ", "
                 \o maxx \o " " \o miny \o ", "
                 \o "                     "
                 \o maxx \o " " \o maxy \o ", "
                 \o minx \o " " \o maxy \o ", "
                 \o minx \o " " \o miny \o "))"
    IN  "st_within(" \o location \o ", geography'" \o bbox_ \o "')"

\* the clauses of a datetime_ that is not None, time_field being set
DatetimeClauses(tf, toks) ==
    IF "/" \in Range(toks)
    THEN LET parts == Split(toks)
         IN  (IF parts[1] # ".." THEN <<Str(tf) \o " ge " \o parts[1]>> ELSE <<>>)
             \o (IF parts[2] # ".." THEN <<Str(tf) \o " le " \o parts[2]>> ELSE <<>>)
    ELSE <<Str(tf) \o " eq " \o Text(toks)>>

\* the test written as  self.time_field == ''
TimeFieldEmpty(tf) == tf = PyStr("")

\* the test  self.time_field is None
TimeFieldMissing(tf) == tf = None_

make_filter(tf, entity, properties, bbox, datetime_) ==
    LET props == [k \in DOMAIN properties |-> PropertyClause(properties[k])]
        spatial == bbox # <<>> /\ InLocationMap(entity)
    IN  IF spatial /\ Len(bbox) # 4 THEN Raise("ValueError")
        ELSE LET ret == IF spatial THEN Append(props, BboxClause(entity, bbox))
                        ELSE props
             IN  IF ~datetime_.given THEN ReturnText(Join(" and ", ret))
                 ELSE IF TimeFieldMissing(tf) THEN Raise("LookupError")
                 ELSE IF "/" \in Range(datetime_.toks)
                         /\ Len(Split(datetime_.toks)) # 2
                 THEN Raise("ValueError")
                 ELSE ReturnText(Join(" and ",
                          ret \o DatetimeClauses(tf, datetime_.toks)))

-----------------------------------------------------------------------------
(* The provider and the arguments of a call *)

\* self._url, as the part urljoin keeps and the last path segment it replaces
_url == [prefix |-> "http://sta/v1.1/", last |-> ""]

\* the defaults of _load's parameters
DefaultArgs ==
    [entity |-> None_, startindex |-> PyInt(0), limit |-> PyInt(DefaultLimit),
     resulttype |-> PyStr("results"), identifier |-> None_, bbox |-> <<>>,
     datetime_ |-> NoDatetime, properties |-> <<>>, sortby |-> <<>>,
     expand |-> None_]

\* query: the call  self._load(startindex, limit, resulttype, bbox=..., ...)
QueryArgs(startindex, limit, resulttype, bbox, datetime_, properties, sortby) ==
    [DefaultArgs EXCEPT !.entity = startindex, !.startindex = limit,
                        !.limit = resulttype, !.bbox = bbox,
                        !.datetime_ = datetime_, !.properties = properties,
                        !.sortby = sortby]

\* get: the call  self._load(entity, identifier=identifier)
GetArgs(entity, identifier) ==
    [DefaultArgs EXCEPT !.entity = entity, !.identifier = identifier]

NoCall == [op |-> "none", resulttype |-> None_, limit |-> None_]

NoParams == [skip |-> None_, top |-> None_, count |-> None_,
             expand |-> None_, filter |-> None_, orderby |-> None_]

\* urljoin(base, entity)
urljoin(base, entity) ==
    IF ~Truthy(entity) THEN ReturnText(base.prefix \o base.last)
    ELSE IF entity.t # "str" THEN Raise("TypeError")
    ELSE ReturnText(base.prefix \o entity.s)

\* the test  properties or bbox or datetime_
NeedsFilter(a) ==
    \/ a.properties # <<>>
    \/ a.bbox # <<>>
    \/ a.datetime_.given /\ a.datetime_.toks # <<>>

\* the URL of the first GET
RequestUrl ==
    IF Truthy(args.identifier)
    THEN url \o "(" \o Str(args.identifier) \o ")" ELSE url

-----------------------------------------------------------------------------
(* The service *)

Statuses == {200, 400, 404, 500}

NoServer == [honest |-> FALSE, total |-> 0, pageSize |-> 0]

\* a service that holds total records and serves them pageSize at a time,
\* with the total count on every page and a nextLink on all but the last
HonestServers ==
    {[honest |-> TRUE, total |-> t, pageSize |-> p] :
        t \in 1..MaxTotal, p \in 1..MaxPage}

NotJson == [json |-> FALSE, id |-> 0, hasValue |-> FALSE, value |-> <<>>,
            count |-> None_, link |-> FALSE]
ErrorBody == [NotJson EXCEPT !.json = TRUE]
EntityBody(i) == [ErrorBody EXCEPT !.id = i]
\* a page of k records following the n already delivered
Page(n, k, c, l) ==
    [json |-> TRUE, id |-> 0, hasValue |-> TRUE,
     value |-> [j \in 1..k |-> n + j], count |-> c, link |-> l]

Counts == {None_} \cup {PyInt(c) : c \in 0..MaxTotal}

ArbitraryResponses(n) ==
    {[status |-> s, body |-> b] :
        s \in Statuses,
        b \in {NotJson, ErrorBody, EntityBody(1)}
              \cup {Page(n, k, c, l) :
                       k \in 0..MaxPage, c \in Counts, l \in BOOLEAN}}

HonestResponse(srv, n, identifier) ==
    IF Truthy(identifier)
    THEN IF identifier.t = "int" /\ identifier.i \in 1..srv.total
         THEN [status |-> 200, body |-> EntityBody(identifier.i)]
         ELSE [status |-> 404, body |-> ErrorBody]
    ELSE [status |-> 200,
          body |-> Page(n, Min(srv.pageSize, srv.total - n),
                        PyInt(srv.total), n + srv.pageSize < srv.total)]

\* what the service may answer to a GET after n records were delivered
Responses(srv, n, identifier) ==
    IF srv.honest THEN {HonestResponse(srv, n, identifier)}
    ELSE ArbitraryResponses(n)

\* a request an honest service understands: a collection or an entity of
\* it, with a numeric $top
WellFormed(a) == a.entity.t = "str" /\ a.entity.s # "" /\ a.limit.t = "int"

Servers(a) == IF WellFormed(a) THEN {NoServer} \cup HonestServers
              ELSE {NoServer}

-----------------------------------------------------------------------------
(* Inputs *)

Entities == {PyStr("Things"), PyStr("Thing")}
Startindexes == {PyInt(0), PyInt(1)}
Limits == {PyInt(n) : n \in 1..MaxLimit}
Resulttypes == {PyStr("results"), PyStr("hits")}
Identifiers == {PyInt(0), PyInt(1), PyInt(MaxTotal + 1)}
BBoxes == {<<>>, <<0, 0, 1, 1>>}
Datetimes ==
    {NoDatetime, Datetime(<<"2020-01-01">>),
     Datetime(<<"2020-01-01", "/", "..">>),
     Datetime(<<"..", "/", "2020-01-01">>)}
PropertyLists ==
    {<<>>, <<[name |-> "Thing", value |-> PyInt(1)]>>,
     <<[name |-> "name", value |-> PyStr("'a'")]>>}
SortSpecs == [property : {"name", "Thing"}, order : {"+", "-"}]
SortbyLists(n) == UNION {[1..k -> SortSpecs] : k \in 0..n}
Sortbys == {<<>>, <<[property |-> "Thing", order |-> "-"]>>}
Expands == {None_, PyStr("Locations")}
TimeFields == {None_, PyStr("phenomenonTime")}

\* direct calls of _load: the pagination parameters with no filter, and the
\* filter parameters with the default pagination
PagingCalls ==
    {[DefaultArgs EXCEPT !.entity = PyStr("Things"), !.limit = l,
                         !.resulttype = r, !.identifier = i] :
        l \in Limits, r \in Resulttypes, i \in {None_, PyInt(1)}}
FilterCalls ==
    {[DefaultArgs EXCEPT !.entity = e, !.limit = PyInt(1), !.bbox = b,
                         !.datetime_ = d, !.properties = p, !.sortby = o,
                         !.expand = x] :
        e \in Entities, b \in BBoxes, d \in Datetimes, p \in PropertyLists,
        o \in Sortbys, x \in Expands}
LoadCalls == PagingCalls \cup FilterCalls

-----------------------------------------------------------------------------
(* _load *)

\* the slice written with the local that is bound:  v[:hits_]
ReturnSliceBound(acc, n) == ReturnList(SubSeq(acc, 1, Min(n, Len(acc))))

\* the value of  v[:hits]  at the return statement: the name hits is bound
\* nowhere (the local is hits_), so evaluating the slice raises
ReturnSlice(acc, n) == Raise("NameError")

\* the session once the return statement has been reached
SessionAtReturn == "closed"

\* the session when _load leaves by an exception or by the hits return,
\* both of which skip s.close()
SessionAtEarlyExit == "open"

\* the session while the filter is being built (Session() comes later)
SessionAtFilter == "none"

\* the test  r.status_code == codes.bad
IsBad(status) == status = codes_bad

\* min(limit, response.get('@iot.count')), the count being an int or None:
\* comparing a str or None with an int raises
PyMin(a, b) ==
    IF a.t = "int" /\ b.t = "int" THEN Value(Min(a.i, b.i))
    ELSE Raise("TypeError")

\* the loop body without the extend
ExtendDropped(acc, body) == acc

\* v.extend(response.get('value'))
Extend(acc, body) == acc \o body.value

\* the loop test  len(v) < hits_
LoopTest(acc, n) == Len(acc) < n

Abort(res, sess) ==
    /\ pc' = "done"
    /\ result' = res
    /\ session' = sess

\* lines 127-147: the parameters, the session and the URL
EnterLoad(a) ==
    LET filter == IF NeedsFilter(a)
                  THEN make_filter(time_field, a.entity, a.properties,
                                   a.bbox, a.datetime_)
                  ELSE NoResult
        orderby == IF a.sortby # <<>> THEN make_orderby(a.sortby)
                   ELSE NoResult
        p == [skip |-> PyStr(Str(a.startindex)),
              top |-> PyStr(Str(a.limit)),
              count |-> PyStr("true"),
              expand |-> IF Truthy(a.expand) THEN a.expand ELSE None_,
              filter |-> IF NeedsFilter(a) THEN PyStr(filter.text) ELSE None_,
              orderby |-> IF a.sortby # <<>> THEN PyStr(orderby.text)
                          ELSE None_]
        joined == urljoin(_url, a.entity)
    IN  /\ args' = a
        /\ IF filter.kind = "raise"
           THEN Abort(filter, SessionAtFilter) /\ UNCHANGED <<params, url>>
           ELSE IF orderby.kind = "raise"
           THEN Abort(orderby, SessionAtFilter) /\ UNCHANGED <<params, url>>
           ELSE IF joined.kind = "raise"
           THEN /\ Abort(joined, SessionAtEarlyExit)
                /\ params' = p
                /\ UNCHANGED url
           ELSE /\ pc' = "get"
                /\ params' = p
                /\ session' = "open"
                /\ url' = joined.text
                /\ UNCHANGED result
        /\ UNCHANGED <<time_field, server, gets, firstStatus, pageFailed,
                       stalled, nextLink, v, hits_>>

Query(startindex, limit, resulttype, bbox, datetime_, properties, sortby) ==
    /\ pc = "idle"
    /\ call' = [op |-> "query", resulttype |-> resulttype, limit |-> limit]
    /\ EnterLoad(QueryArgs(startindex, limit, resulttype, bbox, datetime_,
                           properties, sortby))

Get(entity, identifier) ==
    /\ pc = "idle"
    /\ call' = [op |-> "get", resulttype |-> None_, limit |-> None_]
    /\ EnterLoad(GetArgs(entity, identifier))

Load(a) ==
    /\ pc = "idle"
    /\ call' = [op |-> "_load", resulttype |-> a.resulttype, limit |-> a.limit]
    /\ EnterLoad(a)

\* lines 148-166: the first GET, the status check, the hits return and the
\* first evaluation of the loop test
FirstGet(srv, resp) ==
    /\ pc = "get"
    /\ server' = srv
    /\ gets' = 1
    /\ firstStatus' = resp.status
    /\ LET body == resp.body
           wanted == IF Truthy(args.identifier) THEN Value(1)
                     ELSE PyMin(args.limit, body.count)
       IN  IF IsBad(resp.status)
           THEN Abort(Raise("ConnectionError"), SessionAtEarlyExit)
                /\ UNCHANGED <<v, hits_, nextLink>>
           ELSE IF ~body.json
           THEN Abort(Raise("JSONDecodeError"), SessionAtEarlyExit)
                /\ UNCHANGED <<v, hits_, nextLink>>
           ELSE IF args.resulttype = PyStr("hits")
           THEN Abort(ReturnCount(body.count), SessionAtEarlyExit)
                /\ UNCHANGED <<v, hits_, nextLink>>
           ELSE IF wanted.kind = "raise"
           THEN Abort(Raise(wanted.exc), SessionAtEarlyExit)
                /\ UNCHANGED <<v, hits_, nextLink>>
           ELSE IF ~Truthy(args.identifier) /\ ~body.hasValue
           THEN Abort(Raise("TypeError"), SessionAtEarlyExit)
                /\ UNCHANGED <<v, hits_, nextLink>>
           ELSE /\ pc' = "loop"
                /\ v' = IF Truthy(args.identifier) THEN <<body.id>>
                        ELSE body.value
                /\ hits_' = wanted.i
                /\ nextLink' = body.link
                /\ UNCHANGED <<session, result>>
    /\ UNCHANGED <<time_field, call, args, params, url, pageFailed, stalled>>

\* lines 166-171: the loop test holds and there is a nextLink, so the GET
\* of the next page is issued
FollowLink ==
    /\ pc = "loop"
    /\ LoopTest(v, hits_)
    /\ nextLink
    /\ pc' = "page"
    /\ gets' = Min(gets + 1, MaxGets)
    /\ UNCHANGED <<time_field, call, args, params, session, url, server,
                   firstStatus, pageFailed, stalled, nextLink, v, hits_,
                   result>>

\* lines 171-173: the page arrives, is decoded and extends v
PageGet(resp) ==
    /\ pc = "page"
    /\ pageFailed' = (pageFailed \/ resp.status >= 400)
    /\ LET body == resp.body
       IN  IF ~body.json
           THEN Abort(Raise("JSONDecodeError"), SessionAtEarlyExit)
                /\ UNCHANGED <<v, nextLink, stalled>>
           ELSE IF ~body.hasValue
           THEN Abort(Raise("TypeError"), SessionAtEarlyExit)
                /\ nextLink' = body.link
                /\ UNCHANGED <<v, stalled>>
           ELSE /\ pc' = "loop"
                /\ v' = Extend(v, body)
                /\ nextLink' = body.link
                /\ stalled' = (body.link /\ body.value = <<>>)
                /\ UNCHANGED <<session, result>>
    /\ UNCHANGED <<time_field, call, args, params, url, server, gets,
                   firstStatus, hits_>>

\* lines 166-169 and 175-177: the loop ends, the session is closed and the
\* slice is returned
Finish ==
    /\ pc = "loop"
    /\ ~LoopTest(v, hits_) \/ ~nextLink
    /\ Abort(ReturnSlice(v, hits_), SessionAtReturn)
    /\ UNCHANGED <<time_field, call, args, params, url, server, gets,
                   firstStatus, pageFailed, stalled, nextLink, v, hits_>>

-----------------------------------------------------------------------------
(* The specifications *)

Init ==
    /\ pc = "idle"
    /\ time_field \in TimeFields
    /\ call = NoCall
    /\ args = DefaultArgs
    /\ params = NoParams
    /\ session = "none"
    /\ url = ""
    /\ server = NoServer
    /\ gets = 0
    /\ firstStatus = 0
    /\ pageFailed = FALSE
    /\ stalled = FALSE
    /\ nextLink = FALSE
    /\ v = <<>>
    /\ hits_ = 0
    /\ result = NoResult

Next ==
    \/ \E startindex \in Startindexes, limit \in Limits,
          resulttype \in Resulttypes, bbox \in BBoxes, datetime_ \in Datetimes,
          properties \in PropertyLists, sortby \in Sortbys :
            Query(startindex, limit, resulttype, bbox, datetime_, properties,
                  sortby)
    \/ \E entity \in Entities, identifier \in Identifiers :
            Get(entity, identifier)
    \/ \E a \in LoadCalls : Load(a)
    \/ \E srv \in Servers(args) :
          \E resp \in Responses(srv, 0, args.identifier) : FirstGet(srv, resp)
    \/ FollowLink
    \/ \E resp \in Responses(server, Len(v), None_) : PageGet(resp)
    \/ Finish

Spec == Init /\ [][Next]_vars

\* every request is answered and the interpreter keeps running the call
FairSpec == Spec /\ WF_vars(Next)

\* _make_orderby on its own
InitOrderby ==
    /\ pc = "orderby"
    /\ time_field = None_
    /\ call = [NoCall EXCEPT !.op = "_make_orderby"]
    /\ args \in {[DefaultArgs EXCEPT !.sortby = o] : o \in SortbyLists(MaxSort)}
    /\ params = NoParams
    /\ session = "none"
    /\ url = ""
    /\ server = NoServer
    /\ gets = 0
    /\ firstStatus = 0
    /\ pageFailed = FALSE
    /\ stalled = FALSE
    /\ nextLink = FALSE
    /\ v = <<>>
    /\ hits_ = 0
    /\ result = NoResult

ApplyOrderby ==
    /\ pc = "orderby"
    /\ pc' = "done"
    /\ result' = make_orderby(args.sortby)
    /\ UNCHANGED <<time_field, call, args, params, session, url, server, gets,
                   firstStatus, pageFailed, stalled, nextLink, v, hits_>>

NextOrderby == ApplyOrderby

SpecOrderby == InitOrderby /\ [][NextOrderby]_vars

-----------------------------------------------------------------------------
(* The claims *)

Ended == pc = "done"
ResultsMode(r) == r # PyStr("hits")
Success(status) == status >= 200 /\ status < 300
\* the call left _load by its return statement
Returned == Ended /\ session = "closed"
\* the slice the return statement is meant to produce
Wanted == SubSeq(v, 1, Min(hits_, Len(v)))

\* C1: a results-mode call without identifier, against a service that
\* reports a total larger than one page and links every page but the last,
\* returns a list of exactly min(limit, total) records.
C1_PaginationLength ==
    (/\ Ended
     /\ call.op \in {"_load", "query"}
     /\ ResultsMode(call.resulttype)
     /\ ~Truthy(args.identifier)
     /\ server.honest
     /\ server.total > server.pageSize)
    => /\ result.kind = "list"
       /\ Len(result.list) = Min(call.limit.i, server.total)

\* C2: query(resulttype='hits') whose GET was answered with a JSON body and
\* a success status returns the count container after that one GET, the
\* resulttype _load tests being the one query was given.
C2_HitsReturnsCount ==
    (/\ Ended
     /\ call.op = "query"
     /\ call.resulttype = PyStr("hits")
     /\ Success(firstStatus)
     /\ result # Raise("JSONDecodeError"))
    => /\ args.resulttype = call.resulttype
       /\ result.kind = "count"
       /\ gets = 1

\* C3: once the first GET has been answered with a 4xx or 5xx status, the
\* call has ended with a connection error.
C3_NonSuccessIsFatal ==
    firstStatus >= 400 => Ended /\ result = Raise("ConnectionError")

C5_SessionClosed ==
    (Ended /\ session # "none") => session = "closed"

\* C6: with no time field configured, a call that passes a timestamp or a
\* range ends with a lookup error, no session opened and no GET issued.
C6_LookupErrorBeforeSession ==
    (/\ pc # "idle"
     /\ call.op \in {"query", "get", "_load"}
     /\ time_field = None_
     /\ args.datetime_.given
     /\ args.datetime_.toks # <<>>)
    => /\ Ended
       /\ result = Raise("LookupError")
       /\ session = "none"
       /\ gets = 0
       /\ firstStatus = 0

C6_Witness ==
    /\ Ended
    /\ time_field = None_
    /\ args.datetime_ = Datetime(<<"2020-01-01", "/", "..">>)
    /\ args.bbox # <<>>
    /\ result = Raise("LookupError")
    /\ session = "none"

\* C7: get(entity, identifier) with an identifier the service resolves
\* issues one GET, to <base_url>/<entity>(<identifier>), and returns the
\* record itself.
C7_SingleRecord ==
    (/\ Ended
     /\ call.op = "get"
     /\ server.honest
     /\ args.identifier.i \in 1..server.total)
    => /\ gets = 1
       /\ RequestUrl = _url.prefix \o _url.last \o args.entity.s
                       \o "(" \o Str(args.identifier) \o ")"
       /\ result = [NoResult EXCEPT !.kind = "record",
                                    !.list = <<args.identifier.i>>]

\* C8: when the loop is left on a page without nextLink, the call returns
\* the records accumulated so far, in the order the pages delivered them.
C8_StopsOnMissingLink ==
    (Returned /\ ~nextLink /\ ~Truthy(args.identifier))
    => result = ReturnList(Wanted)

\* C9: _make_orderby of a non-empty list is the clause of its last spec
\* alone: the property, with /@iot.id after an entity name, then asc for +
\* and desc for -.
C9_LastSpecOnly ==
    (Ended /\ call.op = "_make_orderby" /\ args.sortby # <<>>)
    => LET last == args.sortby[Len(args.sortby)]
           prop == IF last.property \in ENTITY
                   THEN last.property \o "/@iot.id" ELSE last.property
           order == IF last.order = "+" THEN "asc" ELSE "desc"
       IN  /\ result = ReturnText(prop \o " " \o order)
           /\ result = make_orderby(<<last>>)

C9_Witness ==
    /\ Ended
    /\ call.op = "_make_orderby"
    /\ Len(args.sortby) = 3
    /\ args.sortby[1].property = "Thing"
    /\ args.sortby[2].order = "-"
    /\ args.sortby[3] = [property |-> "name", order |-> "+"]
    /\ result = ReturnText("name asc")

\* C10 as stated: every call ends, whatever the pages contain.
C10_Terminates == <>Ended

\* C10: every call ends unless the service goes on for ever answering
\* continuation-link GETs with pages that carry a nextLink and no records.
C10_TerminatesUnlessStalled == <>[](~stalled) => <>Ended

C10_Witness ==
    /\ Returned
    /\ Len(v) >= 2
    /\ ~stalled
    /\ ~server.honest

====
